---- MODULE Spec2Model ----
(***************************************************************************)
(* Model of the core of app.py: the paginated fetch-with-retry loop        *)
(* (fetch_events), the business-hours classifier (business_bucket) and the *)
(* first-contact deduplication of preprocess_and_unique.                   *)
(*                                                                         *)
(* Three specifications share the variables:                               *)
(*   Spec / FairSpec  one call of fetch_events against an arbitrary server *)
(*   SpecBucket       one call of business_bucket on arbitrary inputs      *)
(*   SpecDedup        the dedup step of preprocess_and_unique              *)
(* Times are in tenths of a second (base_sleep 0.8 is 8).                  *)
(***************************************************************************)
EXTENDS Integers, Sequences, FiniteSets, TLC

VARIABLES
    pc,          \* position of the fetch_events call
    take, max_events, max_retries, base_sleep,   \* arguments of the call
    collected,   \* the list `collected`
    skip,        \* the local `skip`
    attempt,     \* the local `attempt`
    reqSkip,     \* $skip carried by the request in flight / last issued
    requests,    \* number of requests.post calls made by this call
    sleeps,      \* the time.sleep delays observed, in order
    served,      \* server side: the pages answered with a readable 200 body
    lastStatus,  \* status of the last response (NoResponse: post raised)
    lastShape,   \* body shape of the last 200 response
    transients,  \* server side: number of 429/500/502/503/504 answers sent
    backoffAt,   \* for each backoff, the number of pages read before it
    hour, start_h, end_h, bucket, bpc,           \* business_bucket
    df, df_unicos, dpc                           \* preprocess_and_unique

fetchVars  == <<pc, take, max_events, max_retries, base_sleep, collected, skip,
                attempt, reqSkip, requests, sleeps, served, lastStatus,
                lastShape, transients, backoffAt>>
bucketVars == <<hour, start_h, end_h, bucket, bpc>>
dedupVars  == <<df, df_unicos, dpc>>
vars       == <<fetchVars, bucketVars, dedupVars>>

----------------------------------------------------------------------------
(* Bounds of the model *)
MaxTake     == 2
MaxCap      == 7
MaxRetries  == 2
MaxPageLen  == 2
MaxRows     == 3
MaxTime     == 2

(* Program constants *)
HoursPerDay == 24
DefaultBaseSleep == 8

Hours      == 0 .. (HoursPerDay - 1)
BaseSleeps == {DefaultBaseSleep, 10}

Max(a, b) == IF a >= b THEN a ELSE b
Min(a, b) == IF a <= b THEN a ELSE b

RECURSIVE Pow2(_)
Pow2(n) == IF n <= 0 THEN 1 ELSE 2 * Pow2(n - 1)

RECURSIVE Flatten(_)
Flatten(pages) ==
    IF pages = <<>> THEN <<>> ELSE Head(pages) \o Flatten(Tail(pages))

----------------------------------------------------------------------------
(* The server: what one request can be answered with *)

NoResponse == 0     \* requests.post raised (timeout, connection error)
TransientStatuses == {429, 500, 502, 503, 504}
Statuses == {200, 401, 404, 501} \cup TransientStatuses
FiveXX(status) == status \div 100 = 5

\* shapes of a 200 body
Shapes == {"Items", "NotJson", "JsonNull", "NoResource", "ResourceNull",
           "ResourceText", "NoItems", "ItemsNull", "ItemsNumber",
           "TopLevelList"}

\* a page of n items the server has not served before in this call
FreshPage(n) == [i \in 1 .. n |-> Len(Flatten(served)) + i]

----------------------------------------------------------------------------
(* fetch_events *)

IsAuthFailure(status) == status = 401

IsTransient(status) == status \in TransientStatuses

CanRetryOffByOne(a, mr) == a <= mr
CanRetry(a, mr) == a < mr

SleepS(bs, a) == bs * Pow2(a)

\* resp.raise_for_status(): HTTPError for 4xx and 5xx
RaisesForStatus(status) == status >= 400 /\ status < 600

\* resp.json() raises on a body that is not JSON
JsonRaises(shape) == shape = "NotJson"

\* (data or {}).get("resource", {}).get("items", []) raises AttributeError
ItemsLookupRaises(shape) == shape \in {"ResourceNull", "ResourceText", "TopLevelList"}

\* collected.extend(items) raises TypeError on a non-iterable
ExtendRaises(shape) == shape = "ItemsNumber"

\* the value of `items` for a body whose lookup does not raise
ItemsOf(shape, page) == IF shape = "Items" THEN page ELSE <<>>

ExtendPrepend(c, items) == items \o c
Extend(c, items) == c \o items

ShouldStopExact(items, c, cap) == items = <<>> \/ Len(c) > cap
ShouldStop(items, c, cap) == items = <<>> \/ Len(c) >= cap

NextSkipByOne(s, t) == s + 1
NextSkip(s, t) == s + t

\* no call of business_bucket / preprocess_and_unique in progress
BucketIdle ==
    /\ hour = [kind |-> "int", val |-> 0]
    /\ start_h = 0 /\ end_h = 0 /\ bucket = "None" /\ bpc = "idle"
DedupIdle ==
    /\ df = <<>> /\ df_unicos = <<>> /\ dpc = "idle"

\* the locals of fetch_events at entry (lines 113-115)
FetchLocals ==
    /\ collected = <<>>
    /\ skip = 0
    /\ attempt = 0
    /\ reqSkip = 0
    /\ requests = 0
    /\ sleeps = <<>>
    /\ served = <<>>
    /\ lastStatus = NoResponse
    /\ lastShape = "None"
    /\ transients = 0
    /\ backoffAt = <<>>

Init ==
    /\ pc = "request"
    /\ take \in 1 .. MaxTake
    /\ max_events \in 0 .. MaxCap
    /\ max_retries \in 0 .. MaxRetries
    /\ base_sleep \in BaseSleeps
    /\ FetchLocals
    /\ BucketIdle
    /\ DedupIdle

\* top of the loop: build the uri with the current skip and post it
IssueRequest ==
    /\ pc = "request"
    /\ pc' = "await"
    /\ reqSkip' = skip
    /\ requests' = requests + 1
    /\ UNCHANGED <<take, max_events, max_retries, base_sleep, collected, skip,
                   attempt, sleeps, served, lastStatus, lastShape, transients,
                   backoffAt>>
    /\ UNCHANGED <<bucketVars, dedupVars>>

\* requests.post raises: caught by the except, break
PostRaises ==
    /\ pc = "await"
    /\ pc' = "done"
    /\ lastStatus' = NoResponse
    /\ lastShape' = "None"
    /\ UNCHANGED <<take, max_events, max_retries, base_sleep, collected, skip,
                   attempt, reqSkip, requests, sleeps, served, transients, backoffAt>>
    /\ UNCHANGED <<bucketVars, dedupVars>>

\* a 401 handled like a transient failure
UnauthorizedRetried ==
    /\ pc = "await"
    /\ \E status \in Statuses :
        /\ IsAuthFailure(status)
        /\ lastStatus' = status
    /\ IF CanRetry(attempt, max_retries)
          THEN /\ sleeps' = Append(sleeps, SleepS(base_sleep, attempt))
               /\ attempt' = attempt + 1
               /\ backoffAt' = Append(backoffAt, Len(served))
               /\ pc' = "request"
          ELSE /\ pc' = "done"
               /\ UNCHANGED <<sleeps, attempt, backoffAt>>
    /\ lastShape' = "None"
    /\ UNCHANGED <<take, max_events, max_retries, base_sleep, collected, skip,
                   reqSkip, requests, served, transients>>
    /\ UNCHANGED <<bucketVars, dedupVars>>

\* 401: RuntimeError raised inside the try, caught, break
Unauthorized ==
    /\ pc = "await"
    /\ \E status \in Statuses :
        /\ IsAuthFailure(status)
        /\ lastStatus' = status
    /\ pc' = "done"
    /\ lastShape' = "None"
    /\ UNCHANGED <<take, max_events, max_retries, base_sleep, collected, skip,
                   attempt, reqSkip, requests, sleeps, served, transients, backoffAt>>
    /\ UNCHANGED <<bucketVars, dedupVars>>

\* 429/500/502/503/504 with budget left: sleep, attempt += 1, continue
Backoff ==
    /\ pc = "await"
    /\ \E status \in Statuses :
        /\ ~IsAuthFailure(status)
        /\ IsTransient(status)
        /\ lastStatus' = status
        /\ transients' = transients + (IF status \in TransientStatuses THEN 1 ELSE 0)
    /\ CanRetry(attempt, max_retries)
    /\ sleeps' = Append(sleeps, SleepS(base_sleep, attempt))
    /\ attempt' = attempt + 1
    /\ pc' = "request"
    /\ lastShape' = "None"
    /\ backoffAt' = Append(backoffAt, Len(served))
    /\ UNCHANGED <<take, max_events, max_retries, base_sleep, collected, skip,
                   reqSkip, requests, served>>
    /\ UNCHANGED <<bucketVars, dedupVars>>

\* 429/500/502/503/504 with the budget used up: raise_for_status, caught, break
RetriesExhausted ==
    /\ pc = "await"
    /\ \E status \in Statuses :
        /\ ~IsAuthFailure(status)
        /\ IsTransient(status)
        /\ RaisesForStatus(status)
        /\ lastStatus' = status
        /\ transients' = transients + (IF status \in TransientStatuses THEN 1 ELSE 0)
    /\ ~CanRetry(attempt, max_retries)
    /\ pc' = "done"
    /\ lastShape' = "None"
    /\ UNCHANGED <<take, max_events, max_retries, base_sleep, collected, skip,
                   attempt, reqSkip, requests, sleeps, served, backoffAt>>
    /\ UNCHANGED <<bucketVars, dedupVars>>

\* any other error status: raise_for_status, caught, break
ErrorStatus ==
    /\ pc = "await"
    /\ \E status \in Statuses :
        /\ ~IsAuthFailure(status)
        /\ ~IsTransient(status)
        /\ RaisesForStatus(status)
        /\ lastStatus' = status
    /\ pc' = "done"
    /\ lastShape' = "None"
    /\ UNCHANGED <<take, max_events, max_retries, base_sleep, collected, skip,
                   attempt, reqSkip, requests, sleeps, served, transients, backoffAt>>
    /\ UNCHANGED <<bucketVars, dedupVars>>

\* 200 with a body resp.json() cannot parse: caught, break
BadJson ==
    /\ pc = "await"
    /\ \E shape \in Shapes :
        /\ JsonRaises(shape)
        /\ lastShape' = shape
    /\ lastStatus' = 200
    /\ pc' = "done"
    /\ UNCHANGED <<take, max_events, max_retries, base_sleep, collected, skip,
                   attempt, reqSkip, requests, sleeps, served, transients, backoffAt>>
    /\ UNCHANGED <<bucketVars, dedupVars>>

\* 200 with a body whose shape makes line 143 or 144 raise, outside the try
BadEnvelope ==
    /\ pc = "await"
    /\ \E shape \in Shapes :
        /\ ~JsonRaises(shape)
        /\ ItemsLookupRaises(shape) \/ ExtendRaises(shape)
        /\ lastShape' = shape
    /\ lastStatus' = 200
    /\ pc' = "raised"
    /\ UNCHANGED <<take, max_events, max_retries, base_sleep, collected, skip,
                   attempt, reqSkip, requests, sleeps, served, transients, backoffAt>>
    /\ UNCHANGED <<bucketVars, dedupVars>>

\* the effect of lines 143-149 on the locals, given the page read
PageEffectResetsAttempt(items) ==
    /\ collected' = Extend(collected, items)
    /\ attempt' = 0
    /\ IF ShouldStop(items, collected', max_events)
          THEN pc' = "done" /\ skip' = skip
          ELSE pc' = "request" /\ skip' = NextSkip(skip, take)
PageEffect(items) ==
    /\ collected' = Extend(collected, items)
    /\ attempt' = attempt
    /\ IF ShouldStop(items, collected', max_events)
          THEN pc' = "done" /\ skip' = skip
          ELSE pc' = "request" /\ skip' = NextSkip(skip, take)

\* 200 with a readable body: extend, then stop or advance
ReadPage ==
    /\ pc = "await"
    /\ \E shape \in Shapes, n \in 0 .. MaxPageLen :
        /\ ~JsonRaises(shape) /\ ~ItemsLookupRaises(shape) /\ ~ExtendRaises(shape)
        /\ shape # "Items" => n = 0
        /\ lastShape' = shape
        /\ served' = Append(served, ItemsOf(shape, FreshPage(n)))
        /\ PageEffect(ItemsOf(shape, FreshPage(n)))
    /\ lastStatus' = 200
    /\ UNCHANGED <<take, max_events, max_retries, base_sleep, reqSkip, requests,
                   sleeps, transients, backoffAt>>
    /\ UNCHANGED <<bucketVars, dedupVars>>

Next ==
    \/ IssueRequest
    \/ PostRaises
    \/ Unauthorized
    \/ Backoff
    \/ RetriesExhausted
    \/ ErrorStatus
    \/ BadJson
    \/ BadEnvelope
    \/ ReadPage

Spec == Init /\ [][Next]_vars

\* the loop is sequential code: a step that can be taken is taken
FairSpec == Spec /\ WF_vars(Next)

----------------------------------------------------------------------------
(* business_bucket *)

\* what the caller can pass as `hour`: an hour of the day, or a value int()
\* rejects (NaN, None, text that is not a number)
HourInputs == [kind : {"int"}, val : Hours]
                \cup {[kind |-> k, val |-> 0] : k \in {"nan", "none", "text"}}

\* int(hour) raises ValueError / TypeError
IntRaises(hr) == hr.kind # "int"

InsideClosedEnd(h, s, e) == IF s <= e THEN s <= h /\ h <= e ELSE h >= s \/ h < e
\* the two comparisons of lines 72-74
Inside(h, s, e) == IF s <= e THEN s <= h /\ h < e ELSE h >= s \/ h < e

business_bucket(hr, s, e) ==
    IF IntRaises(hr) THEN "Fora"
    ELSE IF Inside(hr.val, s, e) THEN "Dentro" ELSE "Fora"

\* no call of fetch_events in progress
FetchIdle ==
    /\ pc = "idle"
    /\ take = 1 /\ max_events = 0 /\ max_retries = 0
    /\ base_sleep = DefaultBaseSleep
    /\ FetchLocals

InitBucket ==
    /\ hour \in HourInputs
    /\ start_h \in Hours
    /\ end_h \in Hours
    /\ bucket = "None"
    /\ bpc = "call"
    /\ FetchIdle
    /\ DedupIdle

Classify ==
    /\ bpc = "call"
    /\ bucket' = business_bucket(hour, start_h, end_h)
    /\ bpc' = "done"
    /\ UNCHANGED <<hour, start_h, end_h, fetchVars, dedupVars>>

NextBucket == Classify

SpecBucket == InitBucket /\ [][NextBucket]_vars

----------------------------------------------------------------------------
(* preprocess_and_unique: the first-contact table *)

Users  == {"u1", "u2"}
Null   == "null"                 \* a missing user_id (None / NaN)
Times  == 1 .. MaxTime           \* datetime_local, as instants

\* the normalized table: rows carry the pandas index, user_id, datetime_local
Tables ==
    UNION { { [i \in 1 .. n |-> [index |-> i - 1,
                                  user_id |-> f[i][1],
                                  datetime_local |-> f[i][2]]]
              : f \in [1 .. n -> (Users \cup {Null}) \X Times] }
            : n \in 0 .. MaxRows }

RowOrders(n) ==
    { p \in [1 .. n -> 1 .. n] : \A i, j \in 1 .. n : p[i] = p[j] => i = j }

\* ascending=True, the default of sort_values
InOrder(a, b) == a <= b

\* sort_values("datetime_local") with the default kind="quicksort", which is
\* not stable: any ordering of the rows that is sorted by the key
SortOrders(t) ==
    { p \in RowOrders(Len(t)) :
        \A i, j \in 1 .. Len(t) :
            i < j => InOrder(t[p[i]].datetime_local, t[p[j]].datetime_local) }

sort_values(t, p) == [i \in 1 .. Len(t) |-> t[p[i]]]

IsNullUser(r) == r.user_id = Null
dropna(t) == SelectSeq(t, LAMBDA r : ~IsNullUser(r))

RECURSIVE KeepFirst(_, _)
KeepFirst(t, seen) ==
    IF t = <<>> THEN <<>>
    ELSE IF Head(t).user_id \in seen
         THEN KeepFirst(Tail(t), seen)
         ELSE <<Head(t)>> \o KeepFirst(Tail(t), seen \cup {Head(t).user_id})

Reverse(t) == [i \in 1 .. Len(t) |-> t[Len(t) + 1 - i]]

drop_duplicates_last(t) == Reverse(KeepFirst(Reverse(t), {}))
\* drop_duplicates(subset=["user_id"], keep="first")
drop_duplicates(t) == KeepFirst(t, {})

\* reset_index(drop=True): the index becomes 0, 1, 2, ...
reset_index(t) == [i \in 1 .. Len(t) |-> [t[i] EXCEPT !.index = i - 1]]

InitDedup ==
    /\ df \in Tables
    /\ df_unicos = <<>>
    /\ dpc = "call"
    /\ FetchIdle
    /\ BucketIdle

\* lines 162-163: an empty frame is returned as both tables
PreprocessEmpty ==
    /\ dpc = "call"
    /\ df = <<>>
    /\ df_unicos' = df
    /\ dpc' = "done"
    /\ UNCHANGED <<df, fetchVars, bucketVars>>

\* lines 185-190
PreprocessUnique ==
    /\ dpc = "call"
    /\ df # <<>>
    /\ \E p \in SortOrders(df) :
        df_unicos' = reset_index(drop_duplicates(dropna(sort_values(df, p))))
    /\ dpc' = "done"
    /\ UNCHANGED <<df, fetchVars, bucketVars>>

NextDedup ==
    \/ PreprocessEmpty
    \/ PreprocessUnique

SpecDedup == InitDedup /\ [][NextDedup]_vars

----------------------------------------------------------------------------
(* Properties *)

Last(t) == t[Len(t)]
Returned == pc = "done"
Terminated == pc \in {"done", "raised"}
\* the step handles the response to the request in flight
Answered == pc = "await" /\ pc' # "await"

\* C1: the list fetch_events returns never holds more than max_events items.
C1_NeverExceedsCap == Returned => Len(collected) <= max_events

\* C2: no exception propagates out of fetch_events, whatever the server answers.
C2_NoExceptionPropagates == pc # "raised"

\* C3: whenever fetch_events returns, the returned list is exactly the
\* concatenation, in request order, of the pages read successfully before that
\* point; failed and retried requests contribute nothing.
C3_PartialResultsKept == Returned => collected = Flatten(served)

\* fetch_events returned after the retry budget ran out, with two pages read
\* and a backoff on the way
C3_Witness ==
    /\ Returned
    /\ lastStatus \in TransientStatuses
    /\ Len(served) >= 2
    /\ Len(collected) >= 3
    /\ sleeps # <<>>

C4_Counts ==
    /\ Len(sleeps) <= max_retries
    /\ Len(sleeps) = Min(transients, max_retries)
    /\ transients > max_retries => Returned

C4_Step ==
    /\ (Answered /\ lastStatus' \in TransientStatuses /\ Len(sleeps) < max_retries)
        => /\ Len(sleeps') = Len(sleeps) + 1
           /\ pc' = "request"
           /\ skip' = reqSkip
           /\ collected' = collected
    /\ (Answered /\ lastStatus' \in TransientStatuses /\ Len(sleeps) >= max_retries)
        => /\ pc' = "done"
           /\ sleeps' = sleeps
           /\ collected' = collected
    /\ (Answered /\ lastStatus' \notin TransientStatuses) => sleeps' = sleeps
    /\ (pc = "request" /\ pc' # "request") => (pc' = "await" /\ reqSkip' = skip)
    /\ (Answered /\ served' # served)
        => collected' = collected \o Last(served')

C5_AuthFailureFatal ==
    /\ [](lastStatus = 401 => (Returned /\ collected = Flatten(served)))
    /\ [][(Answered /\ lastStatus' = 401)
            => (pc' = "done" /\ sleeps' = sleeps /\ collected' = collected)]_vars
    /\ [][lastStatus = 401 => (requests' = requests /\ sleeps' = sleeps)]_vars

\* a 401 after a page and a backoff, with retry budget left
C5_Witness ==
    /\ Returned
    /\ lastStatus = 401
    /\ collected # <<>>
    /\ sleeps # <<>>
    /\ attempt < max_retries

\* the most requests one call can make
MaxRequests == Max(max_events, 1) + max_retries

\* C6: fetch_events terminates for every server behaviour, after at most
\* max(max_events, 1) + max_retries requests, and asks for no page once a page
\* has brought the accumulated count to max_events or more.
C6_Terminates ==
    /\ <>Terminated
    /\ [](requests <= MaxRequests)
    /\ []((~Terminated /\ served # <<>>) => Len(collected) < max_events)

\* a call that used every request it can make
C6_Witness ==
    /\ Returned
    /\ max_events >= 3
    /\ max_retries >= 2
    /\ requests = MaxRequests

\* C7: for hours h, start_h, end_h in 0..23 the bucket is Dentro iff
\* start_h <= h < end_h when start_h <= end_h, and iff h >= start_h or
\* h < end_h when start_h > end_h; anything else, a non-numeric or missing
\* hour included, is Fora.
C7_BusinessBucket ==
    bpc = "done" =>
        /\ bucket \in {"Dentro", "Fora"}
        /\ bucket = "Dentro" <=>
            /\ hour.kind = "int"
            /\ \/ start_h <= end_h /\ start_h <= hour.val /\ hour.val < end_h
               \/ start_h > end_h /\ (hour.val >= start_h \/ hour.val < end_h)

\* hour 5 in the 22 -> 6 window
C7_Witness ==
    /\ bpc = "done"
    /\ hour = [kind |-> "int", val |-> 5]
    /\ start_h = 22 /\ end_h = 6
    /\ bucket = "Dentro"

RowsOf(t) == {t[i] : i \in DOMAIN t}
SameData(r, q) == r.user_id = q.user_id /\ r.datetime_local = q.datetime_local

\* C8: the first-contact table holds exactly one row for each non-null user_id
\* of the normalized table and none with a null user_id; each of its rows is a
\* row of the normalized table; the row kept for a user has the least
\* datetime_local of that user's events.
C8_FirstContact ==
    dpc = "done" =>
        /\ \A u \in Users :
            (\E r \in RowsOf(df) : r.user_id = u)
                => Cardinality({k \in DOMAIN df_unicos : df_unicos[k].user_id = u}) = 1
        /\ \A q \in RowsOf(df_unicos) :
            /\ q.user_id # Null
            /\ \E r \in RowsOf(df) : SameData(r, q)
            /\ \A r \in RowsOf(df) :
                r.user_id = q.user_id => q.datetime_local <= r.datetime_local

\* u1 seen at time 2 and then at time 1, beside a row without user_id
C8_Witness ==
    /\ dpc = "done"
    /\ Len(df) = 3
    /\ df[1].user_id = "u1" /\ df[1].datetime_local = 2
    /\ df[2].user_id = "u1" /\ df[2].datetime_local = 1
    /\ df[3].user_id = Null
    /\ Len(df_unicos) = 1
    /\ df_unicos[1].datetime_local = 1

\* p full pages, then an empty one, nothing else
FullPagesThenEmpty ==
    /\ Returned
    /\ sleeps = <<>>
    /\ lastStatus = 200
    /\ served # <<>>
    /\ Last(served) = <<>>
    /\ \A i \in 1 .. Len(served) - 1 : Len(served[i]) = take

C9_Step ==
    /\ Len(sleeps') > Len(sleeps) => skip' = skip
    /\ (Answered /\ served' # served /\ pc' = "request") => skip' = skip + take

\* C9: every request carries $skip = take x (pages read so far); a retry asks
\* for the same $skip and a page that lets the loop go on advances it by take;
\* p full pages followed by an empty one take p + 1 requests and return
\* p x take items.
C9_PaginationOffset ==
    /\ [](pc = "await" => reqSkip = take * Len(served))
    /\ [](pc = "request" => skip = take * Len(served))
    /\ [][C9_Step]_vars
    /\ [](FullPagesThenEmpty =>
            /\ requests = Len(served)
            /\ Len(collected) = (Len(served) - 1) * take)

\* three full pages of two, then an empty page: four requests, six items
C9_Witness ==
    /\ FullPagesThenEmpty
    /\ take = 2
    /\ Len(served) = 4
    /\ requests = 4
    /\ Len(collected) = 6

\* C10: the retry counter belongs to the call: it counts the backoffs made so
\* far and no page resets it, so the i-th backoff (from 0) lasts
\* base_sleep x 2^i, each delay is twice the one before, and there are at most
\* max_retries of them.
C10_CallWideBackoff ==
    /\ attempt = Len(sleeps)
    /\ Len(sleeps) <= max_retries
    /\ \A i \in 1 .. Len(sleeps) : sleeps[i] = base_sleep * Pow2(i - 1)
    /\ \A i \in 2 .. Len(sleeps) : sleeps[i] = 2 * sleeps[i - 1]

\* a backoff, then a page read, then a second backoff
C10_Witness ==
    /\ Len(sleeps) = 2
    /\ backoffAt[1] = 0
    /\ backoffAt[2] = 1
    /\ sleeps[2] = 2 * base_sleep

====
